---- MODULE Spec2Model ----
(***************************************************************************)
(* CircadianZone (src/unnamed/part_000): one lighting zone with a mode     *)
(* (adaptive | night | manual), six configured targets and the current     *)
(* brightness / colour temperature, mirrored to the host's capability      *)
(* store and announced through the driver's values-changed flow.           *)
(*                                                                         *)
(* Numbers.  Every fraction the zone stores is a whole number of           *)
(* hundredths (settings are whole percents divided by 100, computed values *)
(* are Math.round(x * 100) / 100), so a field holding k / 100 is modelled  *)
(* by the integer k.  The circadian percentage is taken on the             *)
(* whole-percent grid: the integer p stands for percentage = p / 100.      *)
(*                                                                         *)
(* Scheduling.  Every handler is an async method: it runs to its next      *)
(* await (a capability write, a flow trigger, the return of setMode to the *)
(* override), is suspended there, and runs on when the awaited promise     *)
(* settles or rejects.  Each action of the model is one such run.  The     *)
(* host may call a handler while others are suspended: the code does not   *)
(* prevent it.  That the host delivers one event at a time is what the     *)
(* design assumes; the model records whether a run kept to it (alone,      *)
(* disturbed) and the properties that rest on it say so.                   *)
(***************************************************************************)
EXTENDS Integers, Sequences, FiniteSets, TLC

VARIABLES
    mode,                 \* _mode
    sunsetTemp,           \* _sunsetTemp
    noonTemp,             \* _noonTemp
    minBrightness,        \* _minBrightness
    maxBrightness,        \* _maxBrightness
    nightTemperature,     \* _nightTemperature
    nightBrightness,      \* _nightBrightness
    currentBrightness,    \* _currentBrightness
    currentTemperature,   \* _currentTemperature
    cap,                  \* the host's capability store (setCapabilityValue / getCapabilityValue)
    percentage,           \* the driver's circadian percentage (getPercentage)
    called,               \* the host has called onInit
    registered,           \* the three capability listeners are registered (lines 81-96)
    tasks,                \* the handlers suspended at an await
    op,                   \* the handler that ran in the last step, with its arguments
    pre,                  \* the zone as it was before that step
    writes,               \* the capability writes begun in that step
    flow,                 \* the values-changed flows triggered in that step
    result,               \* what the handler returned, if it ended in that step
    done,                 \* the handler that ended in that step, if one did
    disturbed,            \* the host has called a handler while another was
                          \* suspended, or a promise a handler awaited has rejected
    calls                 \* handlers the host has called after onInit

vars == <<mode, sunsetTemp, noonTemp, minBrightness, maxBrightness,
          nightTemperature, nightBrightness, currentBrightness,
          currentTemperature, cap, percentage, called, registered, tasks,
          op, pre, writes, flow, result, done, disturbed, calls>>

----------------------------------------------------------------------------
(* Program constants *)

\* the factor of Math.round(x * 100) / 100 and of setting / 100
Scale == 100

\* the "axis not overridden" argument of the two override listeners
Unset == -1

\* getSetting / getCapabilityValue found nothing stored
Undefined == -2

DefaultMode == "adaptive"
DefaultSunsetTemp == 100
DefaultNoonTemp == 40
DefaultMinBrightness == 10
DefaultMaxBrightness == 100
DefaultNightTemperature == 100
DefaultNightBrightness == 10

Modes == {"adaptive", "night", "manual"}

----------------------------------------------------------------------------
(* Input domains *)

\* the whole-percent values the stored settings take in SpecFn
Levels == {10, 20, 40, 60, 100}

\* every percentage of the whole-percent grid
PctGrid == 0 .. Scale

\* values a user sets on the dim / light_temperature capabilities
OverrideValues == {55}

Settings(maxB, minB, nightB, nightT, sunset, noon) ==
    [max_brightness |-> maxB, min_brightness |-> minB,
     night_brightness |-> nightB, night_temp |-> nightT,
     sunset_temp |-> sunset, noon_temp |-> noon]

NoSettings == Settings(Undefined, Undefined, Undefined, Undefined, Undefined, Undefined)

\* the settings forms a user submits
SettingsInputs ==
    { Settings(100, 10, 20, 100, 100, 40),   \* night brightness raised
      Settings(60, 20, 20, 60, 40, 60),      \* sunset below noon
      Settings(60, 20, 20, 60, 40, 40) }     \* sunset equal to noon

\* a form with min_brightness above max_brightness
InvertedSettings == { Settings(10, 60, 10, 100, 100, 40) }

\* the percentages the driver pushes
Pcts == {50}

Caps(m, dim, temp) == [adaptive_mode |-> m, dim |-> dim, light_temperature |-> temp]

\* what the capability store holds when the device starts
StoredCaps ==
    { Caps("", Undefined, Undefined),
      Caps("night", 10, 100),
      Caps("manual", 100, 40) }

----------------------------------------------------------------------------
(* Arithmetic of updateFromPercentage *)

\* Inputs <<min, max, p>> for which the double
\*   ((max/100 - min/100) * (p/100) + min/100) * 100
\* lies just below k + 0.5 although the exact value is k + 0.5
\* (IEEE-754 binary64, the arithmetic of the source), over Levels and PctGrid.
BrightnessTieDown ==
    { <<10, 60, 69>>, <<10, 60, 71>>, <<10, 60, 95>>, <<60, 10, 5>>,
      <<60, 10, 7>>, <<60, 10, 9>>, <<60, 10, 11>>, <<60, 10, 13>>,
      <<60, 10, 29>>, <<60, 10, 31>>, <<60, 10, 33>>, <<60, 10, 55>>,
      <<60, 10, 63>>, <<60, 10, 65>>, <<60, 10, 67>>, <<60, 10, 75>>,
      <<60, 10, 77>>, <<60, 10, 79>>, <<60, 10, 81>>, <<60, 10, 87>>,
      <<60, 10, 89>>, <<60, 10, 91>>, <<60, 10, 93>>, <<60, 10, 99>>,
      <<100, 10, 55>>, <<100, 10, 65>>, <<100, 10, 75>> }

\* Inputs <<noon, sunset, p>> for which the double
\*   ((sunset/100 - noon/100) * (1 - p/100) + noon/100) * 100
\* lies just below k + 0.5 although the exact value is k + 0.5.
TemperatureTieDown ==
    { <<10, 60, 5>>, <<10, 60, 7>>, <<10, 60, 29>>, <<10, 60, 31>>,
      <<10, 60, 33>>, <<10, 60, 55>>, <<10, 60, 81>>, <<10, 60, 91>>,
      <<10, 60, 93>>, <<60, 10, 1>>, <<60, 10, 9>>, <<60, 10, 11>>,
      <<60, 10, 13>>, <<60, 10, 19>>, <<60, 10, 21>>, <<60, 10, 23>>,
      <<60, 10, 25>>, <<60, 10, 35>>, <<60, 10, 37>>, <<60, 10, 41>>,
      <<60, 10, 43>>, <<60, 10, 45>>, <<60, 10, 57>>, <<60, 10, 59>>,
      <<60, 10, 69>>, <<60, 10, 71>>, <<60, 10, 83>>, <<60, 10, 85>>,
      <<60, 10, 87>>, <<60, 10, 89>>, <<60, 10, 91>>, <<60, 10, 93>>,
      <<60, 10, 95>>, <<100, 10, 25>>, <<100, 10, 35>>, <<100, 10, 45>> }

\* Math.round(x * 100) for x = n / Scale^2: the nearest integer, a tie going
\* up unless the double fell below it (tieDown)
MathRound(n, tieDown) ==
    LET q == n \div Scale
        r == n % Scale
    IN  IF 2 * r > Scale \/ (2 * r = Scale /\ ~tieDown) THEN q + 1 ELSE q

\* let brightness = Math.round(((percentage > 0) ? (brightnessDelta * percentage)
\*                  + this._minBrightness : this._minBrightness) * 100) / 100
BrightnessSwappedDelta(minB, maxB, p) ==
    LET brightnessDelta == minB - maxB
    IN  IF p > 0
        THEN MathRound((brightnessDelta * p) + (minB * Scale), FALSE)
        ELSE minB

BrightnessOf(minB, maxB, p) ==
    LET brightnessDelta == maxB - minB
    IN  IF p > 0
        THEN MathRound((brightnessDelta * p) + (minB * Scale),
                       <<minB, maxB, p>> \in BrightnessTieDown)
        ELSE minB

\* calculatedTemperature = (tempDelta * (1-percentage)) + this._noonTemp
\* temperature = Math.round(((percentage > 0) ? calculatedTemperature
\*               : this._sunsetTemp) * 100) / 100
TemperatureRising(noon, sunset, p) ==
    IF p > 0
    THEN MathRound(((sunset - noon) * p) + (noon * Scale), FALSE)
    ELSE sunset

TemperatureOf(noon, sunset, p) ==
    LET tempDelta == sunset - noon
    IN  IF p > 0
        THEN MathRound((tempDelta * (Scale - p)) + (noon * Scale),
                       <<noon, sunset, p>> \in TemperatureTieDown)
        ELSE sunset

----------------------------------------------------------------------------
(* The zone and a handler's frame as values.  A handler's run works on     *)
(* x = [z |-> the zone, t |-> the handler's frame].                         *)

Zone ==
    [mode |-> mode, sunsetTemp |-> sunsetTemp, noonTemp |-> noonTemp,
     minBrightness |-> minBrightness, maxBrightness |-> maxBrightness,
     nightTemperature |-> nightTemperature, nightBrightness |-> nightBrightness,
     currentBrightness |-> currentBrightness,
     currentTemperature |-> currentTemperature,
     cap |-> cap, listeners |-> registered, writes |-> <<>>, flow |-> <<>>]

\* the fields and the store, without the listeners and the per-step logs
Snapshot(z) ==
    [mode |-> z.mode, sunsetTemp |-> z.sunsetTemp, noonTemp |-> z.noonTemp,
     minBrightness |-> z.minBrightness, maxBrightness |-> z.maxBrightness,
     nightTemperature |-> z.nightTemperature, nightBrightness |-> z.nightBrightness,
     currentBrightness |-> z.currentBrightness,
     currentTemperature |-> z.currentTemperature, cap |-> z.cap]

\* the arguments of setCapabilityValue(key, value): value is a mode or a number
CapWrite(key, m, v) == [key |-> key, mode |-> m, value |-> v]

\* the tokens of the values-changed flow
Values(b, t) == [brightness |-> b, temperature |-> t]

Op(name, m, b, t, p, s) ==
    [name |-> name, newMode |-> m, newBrightness |-> b, newTemperature |-> t,
     percentage |-> p, newSettings |-> s]

NoOp == Op("", "", Unset, Unset, Unset, NoSettings)

\* handlers that can be suspended at the same time
MaxInFlight == 2

Slots == 1 .. MaxInFlight

NoWrite == CapWrite("", "", Unset)

NoEntry ==
    [mode |-> "", sunsetTemp |-> Unset, noonTemp |-> Unset,
     minBrightness |-> Unset, maxBrightness |-> Unset,
     nightTemperature |-> Unset, nightBrightness |-> Unset,
     currentBrightness |-> Unset, currentTemperature |-> Unset,
     cap |-> Caps("", Undefined, Undefined)]

\* what a handler did, in order: capability writes it began, flows it triggered
WriteEvent(w) ==
    [kind |-> "write", key |-> w.key, mode |-> w.mode, value |-> w.value,
     brightness |-> Unset, temperature |-> Unset]

FlowEvent(b, t) ==
    [kind |-> "flow", key |-> "", mode |-> "", value |-> Unset,
     brightness |-> b, temperature |-> t]

\* a handler's frame: where it is, its arguments and locals, whether no
\* other handler has been suspended or called since it was called (alone),
\* the zone it found (entry, kept while it is alone), whether it is a push
\* of the percentage the handler that returned just before it pushed alone
\* (repeated), where a rejection hit it (at)
Task(pc, o, entry, alone, repeated) ==
    [pc |-> pc, o |-> o, entry |-> entry, alone |-> alone,
     repeated |-> repeated, at |-> "",
     newMode |-> "", percentage |-> Unset, brightness |-> Unset,
     temperature |-> Unset, valuesChanged |-> FALSE, w |-> NoWrite, log |-> <<>>]

IdleTask == Task("idle", NoOp, NoEntry, FALSE, FALSE)

Done(t, outcome) ==
    [o |-> t.o, entry |-> t.entry, alone |-> t.alone, repeated |-> t.repeated,
     at |-> t.at, log |-> t.log, outcome |-> outcome]

NoDone == Done(IdleTask, "")

\* the awaits on setCapabilityValue of onInit, by the line that makes them
InitWritePcs == {"onInit_76", "onInit_77", "onInit_78"}

\* every await on setCapabilityValue, by the line that makes it
WritePcs ==
    InitWritePcs \cup
    {"setMode_22", "updateFromNightMode_170", "updateFromNightMode_171",
     "updateFromPercentage_201", "updateFromPercentage_216"}

\* every await on a promise of the host or the driver: the writes, and the
\* flow trigger of lines 58, 174 and 226
AwaitPcs == WritePcs \cup {"flow"}

\* await this.setCapabilityValue(...): the write begins, the handler waits
awaitWrite(x, pc, w) ==
    [z |-> [x.z EXCEPT !.writes = Append(@, w)],
     t |-> [x.t EXCEPT !.pc = pc, !.w = w, !.log = Append(@, WriteEvent(w))]]

\* return (this.driver as CircadianDriver).triggerValuesChangedFlow(...),
\* awaited by the caller: the flow fires, the handler waits
triggerValuesChangedFlow(x, b, t) ==
    [z |-> [x.z EXCEPT !.flow = Append(@, Values(b, t))],
     t |-> [x.t EXCEPT !.pc = "flow", !.log = Append(@, FlowEvent(b, t))]]

\* await of an async method of the zone that has come to its end: the
\* caller runs on in a later microtask
awaitReturn(x, pc) == [x EXCEPT !.t.pc = pc]

\* the handler, and every caller up to the host, has nothing left to do
returned(x) == [x EXCEPT !.t.pc = "returned"]

\* the awaited write resolved: the store holds the value
written(z, w) ==
    IF w.key = "adaptive_mode" THEN [z EXCEPT !.cap.adaptive_mode = w.mode]
    ELSE IF w.key = "dim" THEN [z EXCEPT !.cap.dim = w.value]
    ELSE [z EXCEPT !.cap.light_temperature = w.value]

----------------------------------------------------------------------------
(* The methods of the zone, each from where it starts or resumes to its    *)
(* next await *)

updateFromPercentageAlwaysTrigger(x) ==
    triggerValuesChangedFlow(x, x.t.brightness, x.t.temperature)

\* updateFromPercentage, lines 224-227
updateFromPercentageTrigger(x) ==
    IF x.t.valuesChanged
    THEN triggerValuesChangedFlow(x, x.t.brightness, x.t.temperature)
    ELSE returned(x)

\* updateFromPercentage, lines 209-216
updateFromPercentageTemperature(x) ==
    LET temperature == TemperatureOf(x.z.noonTemp, x.z.sunsetTemp, x.t.percentage)
        x1 == [x EXCEPT !.t.temperature = temperature]
    IN  IF temperature # x.z.currentTemperature
        THEN awaitWrite([x1 EXCEPT !.z.currentTemperature = temperature],
                        "updateFromPercentage_216",
                        CapWrite("light_temperature", "", temperature))
        ELSE updateFromPercentageTrigger(x1)

updateFromPercentageAnyMode(x, p) ==
    LET brightness == BrightnessOf(x.z.minBrightness, x.z.maxBrightness, p)
        x1 == [x EXCEPT !.t.percentage = p, !.t.brightness = brightness,
                        !.t.valuesChanged = FALSE]
    IN  IF brightness # x.z.currentBrightness
        THEN awaitWrite([x1 EXCEPT !.z.currentBrightness = brightness],
                        "updateFromPercentage_201",
                        CapWrite("dim", "", brightness))
        ELSE updateFromPercentageTemperature(x1)

\* updateFromPercentage, lines 184-201
updateFromPercentage(x, p) ==
    IF x.z.mode # "adaptive"
    THEN returned(x)
    ELSE LET brightness == BrightnessOf(x.z.minBrightness, x.z.maxBrightness, p)
             x1 == [x EXCEPT !.t.percentage = p, !.t.brightness = brightness,
                             !.t.valuesChanged = FALSE]
         IN  IF brightness # x.z.currentBrightness
             THEN awaitWrite([x1 EXCEPT !.z.currentBrightness = brightness],
                             "updateFromPercentage_201",
                             CapWrite("dim", "", brightness))
             ELSE updateFromPercentageTemperature(x1)

updateFromNightModeSilent(x) == returned(x)

updateFromNightModeStaleValues(x) ==
    triggerValuesChangedFlow(x, x.t.entry.currentBrightness,
                             x.t.entry.currentTemperature)

\* updateFromNightMode, line 174
updateFromNightModeTrigger(x) ==
    triggerValuesChangedFlow(x, x.z.nightBrightness, x.z.nightTemperature)

\* updateFromNightMode, line 171
updateFromNightModeTemperature(x) ==
    awaitWrite(x, "updateFromNightMode_171",
               CapWrite("light_temperature", "", x.z.nightTemperature))

updateFromNightModeBothDiffer(x) ==
    IF (x.z.currentBrightness # x.z.nightBrightness)
           /\ (x.z.currentTemperature # x.z.nightTemperature)
    THEN awaitWrite([x EXCEPT !.z.currentBrightness = x.z.nightBrightness,
                              !.z.currentTemperature = x.z.nightTemperature],
                    "updateFromNightMode_170",
                    CapWrite("dim", "", x.z.nightBrightness))
    ELSE returned(x)

updateFromNightModeWriteFirst(x) ==
    IF (x.z.currentBrightness # x.z.nightBrightness)
           \/ (x.z.currentTemperature # x.z.nightTemperature)
    THEN awaitWrite([x EXCEPT !.z.currentTemperature = x.z.nightTemperature],
                    "updateFromNightMode_170",
                    CapWrite("dim", "", x.z.nightBrightness))
    ELSE returned(x)

\* updateFromNightMode, lines 165-170
updateFromNightMode(x) ==
    IF (x.z.currentBrightness # x.z.nightBrightness)
           \/ (x.z.currentTemperature # x.z.nightTemperature)
    THEN awaitWrite([x EXCEPT !.z.currentBrightness = x.z.nightBrightness,
                              !.z.currentTemperature = x.z.nightTemperature],
                    "updateFromNightMode_170",
                    CapWrite("dim", "", x.z.nightBrightness))
    ELSE returned(x)

refreshZoneElseNight(x, p) ==
    IF x.z.mode = "adaptive" THEN updateFromPercentage(x, p)
    ELSE updateFromNightMode(x)

\* refreshZone, the last statement of each of its callers;
\* p: what (this.driver as CircadianDriver).getPercentage() returns
refreshZone(x, p) ==
    IF x.z.mode = "adaptive" THEN updateFromPercentage(x, p)
    ELSE IF x.z.mode = "night" THEN updateFromNightMode(x)
    ELSE returned(x)

setModeNoGuard(x, newMode) ==
    awaitWrite([x EXCEPT !.z.mode = newMode, !.t.newMode = newMode],
               "setMode_22", CapWrite("adaptive_mode", newMode, Unset))

\* setMode, lines 19-22 and 34-36
setMode(x, newMode) ==
    IF x.z.mode # newMode
    THEN awaitWrite([x EXCEPT !.z.mode = newMode, !.t.newMode = newMode],
                    "setMode_22", CapWrite("adaptive_mode", newMode, Unset))
    ELSE returned(x)

setModeNoRefresh(x, p) ==
    IF x.t.o.name = "override"
    THEN awaitReturn(x, "override_56")
    ELSE returned(x)

\* setMode, lines 24-31, and its return: to line 56 of the override, which
\* awaits it, or to the adaptive_mode listener, which has nothing left
setModeResumed(x, p) ==
    IF (x.t.newMode = "adaptive") \/ (x.t.newMode = "night")
    THEN refreshZone(x, p)
    ELSE IF x.t.o.name = "override"
         THEN awaitReturn(x, "override_56")
         ELSE returned(x)

\* overrideCurrentBrightnessTemperature, line 58
overrideTrigger(x) ==
    triggerValuesChangedFlow(x, x.z.currentBrightness, x.z.currentTemperature)

overrideKeepMode(x, newBrightness, newTemperature) ==
    LET x1 == IF newBrightness >= 0 /\ x.z.currentBrightness # newBrightness
              THEN [x EXCEPT !.z.currentBrightness = newBrightness]
              ELSE x
        x2 == IF newTemperature >= 0 /\ x1.z.currentTemperature # newTemperature
              THEN [x1 EXCEPT !.z.currentTemperature = newTemperature]
              ELSE x1
    IN  IF x2.z.currentBrightness # x.z.currentBrightness
           \/ x2.z.currentTemperature # x.z.currentTemperature
        THEN overrideTrigger(x2)
        ELSE returned(x2)

overrideAlwaysManual(x, newBrightness, newTemperature) ==
    LET x1 == IF newBrightness >= 0
              THEN [x EXCEPT !.z.currentBrightness = newBrightness]
              ELSE x
        x2 == IF newTemperature >= 0
              THEN [x1 EXCEPT !.z.currentTemperature = newTemperature]
              ELSE x1
    IN  IF x2.z.mode # "manual"
        THEN setMode(x2, "manual")
        ELSE overrideTrigger(x2)

overrideAlwaysSetMode(x, newBrightness, newTemperature) ==
    LET x1 == IF newBrightness >= 0 /\ x.z.currentBrightness # newBrightness
              THEN [x EXCEPT !.z.currentBrightness = newBrightness]
              ELSE x
        x2 == IF newTemperature >= 0 /\ x1.z.currentTemperature # newTemperature
              THEN [x1 EXCEPT !.z.currentTemperature = newTemperature]
              ELSE x1
    IN  IF x2.z.currentBrightness # x.z.currentBrightness
           \/ x2.z.currentTemperature # x.z.currentTemperature
        THEN awaitWrite([x2 EXCEPT !.z.mode = "manual", !.t.newMode = "manual"],
                        "setMode_22", CapWrite("adaptive_mode", "manual", Unset))
        ELSE returned(x2)

\* overrideCurrentBrightnessTemperature, lines 42-58
overrideCurrentBrightnessTemperature(x, newBrightness, newTemperature) ==
    LET brightnessChanged ==
            newBrightness >= 0 /\ x.z.currentBrightness # newBrightness
        x1 == IF brightnessChanged
              THEN [x EXCEPT !.z.currentBrightness = newBrightness]
              ELSE x
        temperatureChanged ==
            newTemperature >= 0 /\ x1.z.currentTemperature # newTemperature
        x2 == IF temperatureChanged
              THEN [x1 EXCEPT !.z.currentTemperature = newTemperature]
              ELSE x1
        valueChanged == brightnessChanged \/ temperatureChanged
    IN  IF valueChanged
        THEN IF x2.z.mode # "manual"
             THEN setMode(x2, "manual")
             ELSE overrideTrigger(x2)
        ELSE returned(x2)

\* Math.round(this.getSetting(key)) / 100, or the field's initial value
FromSetting(stored, initial) ==
    IF stored # Undefined THEN stored ELSE initial

\* the fields after lines 66-74 of onInit; s: what the settings store holds
Loaded(z, s) ==
    [z EXCEPT
       !.mode = IF z.cap.adaptive_mode # "" THEN z.cap.adaptive_mode ELSE z.mode,
       !.sunsetTemp = FromSetting(s.sunset_temp, z.sunsetTemp),
       !.noonTemp = FromSetting(s.noon_temp, z.noonTemp),
       !.minBrightness = FromSetting(s.min_brightness, z.minBrightness),
       !.maxBrightness = FromSetting(s.max_brightness, z.maxBrightness),
       !.nightTemperature = FromSetting(s.night_temp, z.nightTemperature),
       !.nightBrightness = FromSetting(s.night_brightness, z.nightBrightness),
       !.currentTemperature = IF z.cap.light_temperature # Undefined
                              THEN z.cap.light_temperature ELSE z.currentTemperature,
       !.currentBrightness = IF z.cap.dim # Undefined
                             THEN z.cap.dim ELSE z.currentBrightness]

\* onInit, lines 81-99: the listeners are registered, then the refresh
onInitListeners(x, p) == refreshZone([x EXCEPT !.z.listeners = TRUE], p)

\* onInit, line 78
onInitDim(x) ==
    awaitWrite(x, "onInit_78", CapWrite("dim", "", x.z.currentBrightness))

\* onInit, line 77
onInitTemperature(x) ==
    awaitWrite(x, "onInit_77",
               CapWrite("light_temperature", "", x.z.currentTemperature))

\* onInit, lines 65-76
onInit(x, s) ==
    LET x1 == [x EXCEPT !.z = Loaded(x.z, s)]
    IN  awaitWrite(x1, "onInit_76", CapWrite("adaptive_mode", x1.z.mode, Unset))

AcceptedNotBelow(s) == s.sunset_temp >= s.noon_temp

\* the sanity check of onSettings, line 119
Accepted(s) == s.sunset_temp > s.noon_temp

\* onSettings, lines 117-131
onSettings(x, s, p) ==
    IF ~Accepted(s)
    THEN returned(x)
    ELSE refreshZone([x EXCEPT !.z.maxBrightness = s.max_brightness,
                               !.z.minBrightness = s.min_brightness,
                               !.z.noonTemp = s.noon_temp,
                               !.z.sunsetTemp = s.sunset_temp,
                               !.z.nightBrightness = s.night_brightness,
                               !.z.nightTemperature = s.night_temp], p)

\* the promise a handler awaits resolved: the store holds what a write
\* carried, and the handler runs on from there to its next await
resolved(x, p) ==
    LET y == IF x.t.pc \in WritePcs
             THEN [x EXCEPT !.z = written(x.z, x.t.w)]
             ELSE x
    IN  IF x.t.pc = "onInit_76" THEN onInitTemperature(y)
        ELSE IF x.t.pc = "onInit_77" THEN onInitDim(y)
        ELSE IF x.t.pc = "onInit_78" THEN onInitListeners(y, p)
        ELSE IF x.t.pc = "setMode_22" THEN setModeResumed(y, p)
        ELSE IF x.t.pc = "updateFromPercentage_201"
        THEN updateFromPercentageTemperature([y EXCEPT !.t.valuesChanged = TRUE])
        ELSE IF x.t.pc = "updateFromPercentage_216"
        THEN updateFromPercentageTrigger([y EXCEPT !.t.valuesChanged = TRUE])
        ELSE IF x.t.pc = "updateFromNightMode_170"
        THEN updateFromNightModeTemperature(y)
        ELSE IF x.t.pc = "updateFromNightMode_171"
        THEN updateFromNightModeTrigger(y)
        ELSE IF x.t.pc = "override_56" THEN overrideTrigger(y)
        ELSE returned(y)

rejectedSwallowed(x) ==
    LET y == [x EXCEPT !.t.at = x.t.pc]
    IN  IF x.t.pc = "setMode_22" /\ x.t.o.name = "override"
        THEN overrideTrigger(y)
        ELSE returned(y)

\* the awaited promise rejected: no handler catches, the rejection leaves
\* through every caller
rejected(x) == [x EXCEPT !.t.at = x.t.pc, !.t.pc = "thrown"]

----------------------------------------------------------------------------
(* Actions: the host calls a handler, or settles a promise *)

NoneInFlight == \A slot \in Slots : tasks[slot].pc = "idle"

\* no continuation is waiting in the microtask queue: the host's next event
\* is delivered only after they have run
Quiet == \A slot \in Slots : tasks[slot].pc # "override_56"

\* the first free slot, if there is one
FreeSlots ==
    {slot \in Slots : /\ tasks[slot].pc = "idle"
                      /\ \A other \in 1 .. slot - 1 : tasks[other].pc # "idle"}

\* the suspended handlers, once the host has called another one
Interrupted ==
    [slot \in Slots |-> IF tasks[slot].pc = "idle"
                        THEN tasks[slot]
                        ELSE [tasks[slot] EXCEPT !.alone = FALSE,
                                                 !.entry = NoEntry]]

IsSuspended(t) == t.pc # "idle"

\* the suspended handlers in the order in which the host called them
InCallOrder(ts) ==
    LET live == SelectSeq(ts, IsSuspended)
    IN  [slot \in Slots |-> IF slot <= Len(live) THEN live[slot] ELSE IdleTask]

\* the handler in slot ran to x and (if it is over) handed r to the host;
\* waiting: the handlers that were suspended meanwhile
Step(slot, x, r, waiting) ==
    LET over == x.t.pc \in {"returned", "thrown"}
    IN  /\ mode' = x.z.mode
        /\ sunsetTemp' = x.z.sunsetTemp
        /\ noonTemp' = x.z.noonTemp
        /\ minBrightness' = x.z.minBrightness
        /\ maxBrightness' = x.z.maxBrightness
        /\ nightTemperature' = x.z.nightTemperature
        /\ nightBrightness' = x.z.nightBrightness
        /\ currentBrightness' = x.z.currentBrightness
        /\ currentTemperature' = x.z.currentTemperature
        /\ cap' = x.z.cap
        /\ registered' = x.z.listeners
        /\ writes' = x.z.writes
        /\ flow' = x.z.flow
        /\ op' = x.t.o
        /\ pre' = Snapshot(Zone)
        /\ result' = r
        /\ tasks' = InCallOrder([waiting EXCEPT
                                    ![slot] = IF over THEN IdleTask ELSE x.t])
        /\ done' = IF over THEN Done(x.t, x.t.pc) ELSE NoDone

\* the host calls a handler: a new frame on the zone as it is
Begin(o) ==
    [z |-> Zone,
     t |-> Task("run", o, Snapshot(Zone), NoneInFlight,
                /\ o.name = "updateFromPercentage"
                /\ done.outcome = "returned"
                /\ done.alone
                /\ done.o.name = "updateFromPercentage"
                /\ done.o.percentage = o.percentage)]

\* the handler runs from its first line to its first await
Call(x, r) ==
    /\ \E slot \in FreeSlots : Step(slot, x, r, Interrupted)
    /\ disturbed' = (disturbed \/ ~NoneInFlight)

\* the host initialises the device; s: what the settings store holds
OnInit(s) ==
    /\ ~called
    /\ called' = TRUE
    /\ Call(onInit(Begin(Op("onInit", "", Unset, Unset, Unset, s)), s), "")
    /\ UNCHANGED percentage

\* this.registerCapabilityListener("adaptive_mode", ...)
ModeListener(value) ==
    /\ registered
    /\ Quiet
    /\ Call(setMode(Begin(Op("setMode", value, Unset, Unset, Unset, NoSettings)),
                    value), "")
    /\ UNCHANGED <<called, percentage>>

\* this.registerCapabilityListener("light_temperature", ...)
TemperatureListener(newTemperature) ==
    /\ registered
    /\ Quiet
    /\ Call(overrideCurrentBrightnessTemperature(
                Begin(Op("override", "", Unset, newTemperature, Unset, NoSettings)),
                Unset, newTemperature), "")
    /\ UNCHANGED <<called, percentage>>

\* this.registerCapabilityListener("dim", ...)
DimListener(newBrightness) ==
    /\ registered
    /\ Quiet
    /\ Call(overrideCurrentBrightnessTemperature(
                Begin(Op("override", "", newBrightness, Unset, Unset, NoSettings)),
                newBrightness, Unset), "")
    /\ UNCHANGED <<called, percentage>>

\* the user submits the settings form
OnSettings(s) ==
    /\ called
    /\ Quiet
    /\ Call(onSettings(Begin(Op("onSettings", "", Unset, Unset, Unset, s)),
                       s, percentage),
            IF ~Accepted(s) THEN "temperature_error" ELSE "")
    /\ UNCHANGED <<called, percentage>>

\* the driver recomputes its percentage and pushes it to the zone
UpdateFromPercentage(p) ==
    /\ called
    /\ Quiet
    /\ percentage' = p
    /\ Call(updateFromPercentage(
                Begin(Op("updateFromPercentage", "", Unset, Unset, p, NoSettings)),
                p), "")
    /\ UNCHANGED called

\* the promise a handler awaits resolves
Resolve(slot) ==
    /\ tasks[slot].pc # "idle"
    /\ Step(slot, resolved([z |-> Zone, t |-> tasks[slot]], percentage), "", tasks)
    /\ UNCHANGED <<called, percentage, disturbed>>

\* the promise a handler awaits rejects: a capability write, or the flow
\* trigger of the driver
Reject(slot) ==
    /\ tasks[slot].pc \in AwaitPcs
    /\ Step(slot, rejected([z |-> Zone, t |-> tasks[slot]]),
            IF tasks[slot].pc = "flow" THEN "flow_failed" ELSE "write_failed",
            tasks)
    /\ disturbed' = TRUE
    /\ UNCHANGED <<called, percentage>>

----------------------------------------------------------------------------
(* Specifications *)

\* the zone as constructed (lines 6-14), before the host has called onInit
Constructed ==
    /\ mode = DefaultMode
    /\ sunsetTemp = DefaultSunsetTemp
    /\ noonTemp = DefaultNoonTemp
    /\ minBrightness = DefaultMinBrightness
    /\ maxBrightness = DefaultMaxBrightness
    /\ nightTemperature = DefaultNightTemperature
    /\ nightBrightness = DefaultNightBrightness
    /\ currentBrightness = DefaultMaxBrightness
    /\ currentTemperature = DefaultNoonTemp
    /\ called = FALSE
    /\ registered = FALSE
    /\ tasks = [slot \in Slots |-> IdleTask]
    /\ op = NoOp
    /\ pre = Snapshot(Zone)
    /\ writes = <<>>
    /\ flow = <<>>
    /\ result = ""
    /\ done = NoDone
    /\ disturbed = FALSE
    /\ calls = 0

Init ==
    /\ cap \in StoredCaps
    /\ percentage = 0
    /\ Constructed

\* the host calls a handler of the zone; forms: what the user may submit
Start(forms) ==
    \/ \E value \in Modes : ModeListener(value)
    \/ \E v \in OverrideValues : TemperatureListener(v)
    \/ \E v \in OverrideValues : DimListener(v)
    \/ \E s \in forms : OnSettings(s)
    \/ \E p \in Pcts : UpdateFromPercentage(p)

\* handlers the host calls after onInit in one behaviour
MaxCalls == 2

\* The program: the host calls onInit once and then any handler, also while
\* others are suspended, and settles the promises they await either way.
Next ==
    \/ OnInit(NoSettings) /\ UNCHANGED calls
    \/ calls < MaxCalls /\ Start(SettingsInputs) /\ calls' = calls + 1
    \/ \E slot \in Slots : Resolve(slot) /\ UNCHANGED calls
    \/ \E slot \in Slots : Reject(slot) /\ UNCHANGED calls

Spec == Init /\ [][Next]_vars

\* The program with a user who also submits the inverted form.
NextInverted ==
    \/ OnInit(NoSettings) /\ UNCHANGED calls
    \/ calls < MaxCalls /\ Start(SettingsInputs \cup InvertedSettings)
           /\ calls' = calls + 1
    \/ \E slot \in Slots : Resolve(slot) /\ UNCHANGED calls
    \/ \E slot \in Slots : Reject(slot) /\ UNCHANGED calls

SpecInverted == Init /\ [][NextInverted]_vars

\* The interpolation over every pair of Levels, as the brightness range
\* and as the temperature range, and over the whole grid: the zone starts
\* on stored settings, the driver pushes the percentage it holds, and
\* every promise resolves.
FnSettings ==
    { Settings(high, low, DefaultNightBrightness, DefaultNightTemperature,
               high, low) :
        high \in Levels, low \in Levels }
    \cup
    { Settings(DefaultMaxBrightness, DefaultMinBrightness, DefaultNightBrightness,
               DefaultNightTemperature, DefaultSunsetTemp, DefaultNoonTemp) }

InitFn ==
    /\ cap = Caps("", Undefined, Undefined)
    /\ percentage \in PctGrid
    /\ Constructed

\* pushes of the driver in one behaviour of SpecFn
MaxPushes == 1

NextFn ==
    \/ \E s \in FnSettings : OnInit(s) /\ UNCHANGED calls
    \/ calls < MaxPushes /\ UpdateFromPercentage(percentage) /\ calls' = calls + 1
    \/ \E slot \in Slots : Resolve(slot) /\ UNCHANGED calls

SpecFn == InitFn /\ [][NextFn]_vars

----------------------------------------------------------------------------
(* Properties.  A handler's claim is read in the state in which it         *)
(* returned: done holds its arguments, the zone it found and what it did.  *)
(* Where a property rests on the design's assumption that the host         *)
(* delivers one event at a time, it holds for the handlers that ran alone  *)
(* (Alone), or in the states that only such handlers led to (AsAssumed).   *)

ZoneOperations == {"setMode", "override", "onSettings", "updateFromPercentage"}

\* a handler returned in the last step
Returned == done.outcome = "returned"

IsWrite(e) == e.kind = "write"

IsFlow(e) == e.kind = "flow"

EventWrite(e) == CapWrite(e.key, e.mode, e.value)

\* the capability writes that handler made, in order
LogWrites ==
    LET ws == SelectSeq(done.log, IsWrite)
    IN  [i \in 1 .. Len(ws) |-> EventWrite(ws[i])]

\* the flows that handler triggered, in order
LogFlows ==
    LET fs == SelectSeq(done.log, IsFlow)
    IN  [i \in 1 .. Len(fs) |-> Values(fs[i].brightness, fs[i].temperature)]

\* that handler left a current value different from the one it found
ValuesDiffer ==
    \/ currentBrightness # done.entry.currentBrightness
    \/ currentTemperature # done.entry.currentTemperature

\* that handler changed no field, wrote no capability and triggered no flow
NoEffect ==
    /\ Snapshot(Zone) = done.entry
    /\ done.log = <<>>

\* onInit is over and no handler is running
BetweenHandlers == registered /\ NoneInFlight

\* no other handler was suspended or called while that handler was at work
Alone == done.alone

\* so far the host has delivered one event at a time and every promise has
\* resolved
AsAssumed == ~disturbed

\* C1: a mode change, an override, a settings update (each with the refresh
\* it runs) or a percentage push that ran alone triggers the values-changed
\* flow if and only if it leaves currentBrightness or currentTemperature
\* different from what it found.
C1_NotifyIffChanged ==
    (Returned /\ Alone /\ done.o.name \in ZoneOperations) =>
        ((LogFlows # <<>>) <=> ValuesDiffer)

C1_Witness ==
    /\ Returned
    /\ Alone
    /\ done.o.name = "onSettings"
    /\ done.entry.mode = "night"
    /\ ValuesDiffer
    /\ LogFlows # <<>>

\* C2: setMode(m) while the mode is m changes no field and no capability
\* value, writes nothing and triggers no flow, for each of the three modes.
C2_SetSameModeNoOp ==
    (Returned /\ done.o.name = "setMode" /\ done.o.newMode = done.entry.mode) =>
        NoEffect

C2_Witness ==
    /\ Returned
    /\ done.o.name = "setMode"
    /\ done.o.newMode = done.entry.mode
    /\ done.entry.mode = "night"

\* C3: between handlers that ran one at a time and whose promises all
\* resolved, a zone in adaptive mode has
\* minBrightness <= currentBrightness <= maxBrightness.
C3_AdaptiveWithinBounds ==
    (AsAssumed /\ BetweenHandlers /\ mode = "adaptive") =>
        (minBrightness <= currentBrightness /\ currentBrightness <= maxBrightness)

\* C4: between handlers that ran one at a time and whose promises all
\* resolved, a zone in night mode has currentBrightness = nightBrightness.
C4_NightBrightness ==
    (AsAssumed /\ BetweenHandlers /\ mode = "night") =>
        currentBrightness = nightBrightness

C4_Witness ==
    /\ AsAssumed
    /\ BetweenHandlers
    /\ mode = "night"
    /\ done.o.name = "onSettings"
    /\ done.entry.mode = "night"
    /\ done.entry.nightBrightness # nightBrightness

\* C5: updateFromPercentage in night or manual mode returns with no effect:
\* no field, no capability value changes and no flow is triggered.
C5_PushOutsideAdaptiveNoOp ==
    (Returned /\ done.o.name = "updateFromPercentage"
         /\ done.entry.mode \in {"night", "manual"}) =>
        (NoEffect /\ result = "")

C5_Witness ==
    /\ Returned
    /\ done.o.name = "updateFromPercentage"
    /\ done.entry.mode = "manual"
    /\ done.entry.currentBrightness
           # BrightnessOf(done.entry.minBrightness, done.entry.maxBrightness,
                          done.o.percentage)

\* C6: in adaptive mode a push of the percentage that the handler just
\* before it pushed, each of the two running alone, changes neither current
\* value and triggers no flow.
C6_SecondPushSilent ==
    (Returned /\ Alone /\ done.repeated /\ done.entry.mode = "adaptive") =>
        (~ValuesDiffer /\ LogFlows = <<>>)

C6_Witness ==
    /\ Returned
    /\ Alone
    /\ done.repeated
    /\ done.entry.mode = "adaptive"
    /\ done.o.percentage = 50
    /\ currentBrightness = 55
    /\ currentTemperature = 70

\* C7: a brightness-only override to a value other than currentBrightness
\* that ran alone, in any mode, ends in manual mode with the new brightness
\* and the old temperature, and triggers one flow carrying exactly those
\* two values.
C7_BrightnessOnlyOverride ==
    (/\ Returned
     /\ Alone
     /\ done.o.name = "override"
     /\ done.o.newTemperature = Unset
     /\ done.o.newBrightness >= 0
     /\ done.o.newBrightness # done.entry.currentBrightness) =>
        (/\ mode = "manual"
         /\ currentBrightness = done.o.newBrightness
         /\ currentTemperature = done.entry.currentTemperature
         /\ LogFlows = <<Values(done.o.newBrightness, done.entry.currentTemperature)>>)

C7_Witness ==
    /\ Returned
    /\ Alone
    /\ done.o.name = "override"
    /\ done.o.newTemperature = Unset
    /\ done.o.newBrightness # done.entry.currentBrightness
    /\ done.entry.mode = "night"
    /\ mode = "manual"

\* C8: a settings update whose sunset_temp is not above its noon_temp
\* returns the error message and has no effect.
C8_RejectedSettings ==
    (/\ Returned
     /\ done.o.name = "onSettings"
     /\ ~(done.o.newSettings.sunset_temp > done.o.newSettings.noon_temp)) =>
        (result = "temperature_error" /\ NoEffect)

C8_Witness ==
    /\ Returned
    /\ done.o.name = "onSettings"
    /\ done.o.newSettings.sunset_temp = done.o.newSettings.noon_temp
    /\ done.o.newSettings.min_brightness # minBrightness
    /\ result = "temperature_error"

\* round2 of n / Scale^2 in hundredths: floor(x + 0.5), on the double
Round2(n, below) ==
    (n + (Scale \div 2) - (IF below /\ n % Scale = Scale \div 2 THEN 1 ELSE 0)) \div Scale

\* round2(pct > 0 ? min + (max - min) * pct : min)
InterpolatedBrightness(minB, maxB, p) ==
    IF p > 0
    THEN Round2((minB * Scale) + ((maxB - minB) * p), <<minB, maxB, p>> \in BrightnessTieDown)
    ELSE minB

\* round2(pct > 0 ? noon + (sunset - noon) * (1 - pct) : sunset)
InterpolatedTemperature(noon, sunset, p) ==
    IF p > 0
    THEN Round2((noon * Scale) + ((sunset - noon) * (Scale - p)),
                <<noon, sunset, p>> \in TemperatureTieDown)
    ELSE sunset

DefaultRange ==
    /\ minBrightness = 10
    /\ maxBrightness = 100
    /\ noonTemp = 40
    /\ sunsetTemp = 100

\* a push that found the zone in adaptive mode returned in the last step
PushReturned ==
    /\ Returned
    /\ done.o.name = "updateFromPercentage"
    /\ done.entry.mode = "adaptive"

\* C9: after updateFromPercentage(pct) in adaptive mode the current values
\* are the two interpolations of the spec, for every pct of the
\* whole-percent grid; with min 0.10, max 1.00, noon 0.40, sunset 1.00 the
\* pushes 0, 0.5 and 1 give (0.10, 1.00), (0.55, 0.70) and (1.00, 0.40).
C9_Interpolation ==
    PushReturned =>
        (/\ currentBrightness
                = InterpolatedBrightness(minBrightness, maxBrightness, done.o.percentage)
         /\ currentTemperature
                = InterpolatedTemperature(noonTemp, sunsetTemp, done.o.percentage)
         /\ (DefaultRange /\ done.o.percentage = 0) =>
                (currentBrightness = 10 /\ currentTemperature = 100)
         /\ (DefaultRange /\ done.o.percentage = 50) =>
                (currentBrightness = 55 /\ currentTemperature = 70)
         /\ (DefaultRange /\ done.o.percentage = 100) =>
                (currentBrightness = 100 /\ currentTemperature = 40))

C9_Witness ==
    /\ PushReturned
    /\ DefaultRange
    /\ done.o.percentage = 50
    /\ Len(LogWrites) = 2
    /\ currentBrightness = 55
    /\ currentTemperature = 70

\* C10: with minBrightness <= maxBrightness, the brightness a push of
\* pct in (0,1] stores lies in [minBrightness, maxBrightness] and is not
\* below the brightness of any smaller pct in (0,1].
C10_BrightnessMonotone ==
    (/\ PushReturned
     /\ done.o.percentage > 0
     /\ minBrightness <= maxBrightness) =>
        (/\ minBrightness <= currentBrightness
         /\ currentBrightness <= maxBrightness
         /\ \A p1 \in 1 .. done.o.percentage :
                BrightnessOf(minBrightness, maxBrightness, p1) <= currentBrightness)

C10_Witness ==
    /\ PushReturned
    /\ minBrightness = 10
    /\ maxBrightness = 60
    /\ done.o.percentage = 71
    /\ currentBrightness = 45
    /\ BrightnessOf(minBrightness, maxBrightness, 70) = 45

\* C11: with sunsetTemp > noonTemp, the temperature a push of pct in [0,1]
\* stores is not above the temperature of any smaller pct, is sunsetTemp
\* at pct = 0 and noonTemp at pct = 1.
C11_TemperatureMonotone ==
    (PushReturned /\ sunsetTemp > noonTemp) =>
        (/\ \A p1 \in 0 .. done.o.percentage :
                TemperatureOf(noonTemp, sunsetTemp, p1) >= currentTemperature
         /\ done.o.percentage = 0 => currentTemperature = sunsetTemp
         /\ done.o.percentage = Scale => currentTemperature = noonTemp)

C11_Witness ==
    /\ PushReturned
    /\ noonTemp = 10
    /\ sunsetTemp = 60
    /\ done.o.percentage = 29
    /\ currentTemperature = 45
    /\ TemperatureOf(noonTemp, sunsetTemp, 28) = 46

\* the handler that returned ran alone and ran refreshZone while the mode
\* was night
RefreshedInNight ==
    /\ Returned
    /\ Alone
    /\ \/ done.o.name = "onSettings" /\ result = "" /\ done.entry.mode = "night"
       \/ done.o.name = "setMode" /\ done.o.newMode = "night"
              /\ done.entry.mode # "night"

\* C12: a refreshZone in night mode, in a handler that ran alone, that
\* finds both current values at the night targets changes neither, writes
\* nothing and triggers no flow; one that finds either off target sets both
\* to the targets and triggers
\* exactly one flow carrying the targets (after night_brightness went from
\* 0.10 to 0.20, a flow with brightness 0.20).
C12_NightRefresh ==
    RefreshedInNight =>
        IF done.entry.currentBrightness = nightBrightness
               /\ done.entry.currentTemperature = nightTemperature
        THEN /\ ~ValuesDiffer
             /\ LogFlows = <<>>
             /\ \A i \in 1 .. Len(LogWrites) : LogWrites[i].key = "adaptive_mode"
        ELSE /\ currentBrightness = nightBrightness
             /\ currentTemperature = nightTemperature
             /\ LogFlows = <<Values(nightBrightness, nightTemperature)>>
             /\ (done.entry.nightBrightness = 10 /\ nightBrightness = 20)
                    => LogFlows[1].brightness = 20

C12_Witness ==
    /\ Returned
    /\ Alone
    /\ done.o.name = "onSettings"
    /\ done.entry.mode = "night"
    /\ done.entry.nightBrightness = 10
    /\ done.entry.currentBrightness = 10
    /\ nightBrightness = 20
    /\ LogFlows = <<Values(20, nightTemperature)>>

\* C13: in manual mode a percentage push, a settings update (accepted or
\* rejected, with its refreshZone) or setMode("manual") leaves the mode and
\* both current values alone, writes nothing and triggers no flow.
C13_ManualStands ==
    (/\ Returned
     /\ done.entry.mode = "manual"
     /\ \/ done.o.name \in {"updateFromPercentage", "onSettings"}
        \/ done.o.name = "setMode" /\ done.o.newMode = "manual") =>
        (/\ mode = "manual"
         /\ ~ValuesDiffer
         /\ done.log = <<>>)

C13_Witness ==
    /\ Returned
    /\ done.entry.mode = "manual"
    /\ done.o.name = "onSettings"
    /\ result = ""
    /\ nightBrightness # done.entry.nightBrightness
    /\ currentBrightness # nightBrightness
    /\ currentBrightness # BrightnessOf(minBrightness, maxBrightness, percentage)

\* C15: setMode(m) with m other than the current mode, running alone, sets
\* and persists the mode first; for night it ends with both current values
\* at the night targets, for adaptive with both at the interpolation of the driver's
\* percentage, for manual with both unchanged and no flow.
C15_SetModeRecompute ==
    (/\ Returned
     /\ Alone
     /\ done.o.name = "setMode"
     /\ done.o.newMode # done.entry.mode) =>
        (/\ mode = done.o.newMode
         /\ cap.adaptive_mode = done.o.newMode
         /\ Len(LogWrites) >= 1
         /\ LogWrites[1] = CapWrite("adaptive_mode", done.o.newMode, Unset)
         /\ done.o.newMode = "night" =>
                (/\ currentBrightness = nightBrightness
                 /\ currentTemperature = nightTemperature)
         /\ done.o.newMode = "adaptive" =>
                (/\ currentBrightness
                        = InterpolatedBrightness(minBrightness, maxBrightness, percentage)
                 /\ currentTemperature
                        = InterpolatedTemperature(noonTemp, sunsetTemp, percentage))
         /\ done.o.newMode = "manual" =>
                (~ValuesDiffer /\ LogFlows = <<>>))

C15_Witness ==
    /\ Returned
    /\ Alone
    /\ done.o.name = "setMode"
    /\ done.entry.mode = "manual"
    /\ done.o.newMode = "adaptive"
    /\ ValuesDiffer
    /\ Len(LogWrites) = 3

\* C17: an override whose provided axis equals the current stored value has
\* no effect in any mode: the mode stays, nothing is written, no flow.
C17_UnchangedOverride ==
    (/\ Returned
     /\ done.o.name = "override"
     /\ done.o.newBrightness \in {Unset, done.entry.currentBrightness}
     /\ done.o.newTemperature \in {Unset, done.entry.currentTemperature}) =>
        NoEffect

C17_Witness ==
    /\ Returned
    /\ done.o.name = "override"
    /\ done.entry.mode = "adaptive"
    /\ done.o.newBrightness = done.entry.currentBrightness
    /\ mode = "adaptive"

\* what the zone holds in memory, and what the store holds, for a capability
Held(key) ==
    CapWrite(key,
             IF key = "adaptive_mode" THEN mode ELSE "",
             IF key = "dim" THEN currentBrightness
             ELSE IF key = "light_temperature" THEN currentTemperature
             ELSE Unset)

HeldIn(snap, key) ==
    CapWrite(key,
             IF key = "adaptive_mode" THEN snap.mode ELSE "",
             IF key = "dim" THEN snap.currentBrightness
             ELSE IF key = "light_temperature" THEN snap.currentTemperature
             ELSE Unset)

StoredIn(snap, key) ==
    CapWrite(key,
             IF key = "adaptive_mode" THEN snap.cap.adaptive_mode ELSE "",
             IF key = "dim" THEN snap.cap.dim
             ELSE IF key = "light_temperature" THEN snap.cap.light_temperature
             ELSE Unset)

Stored(key) == StoredIn([cap |-> cap], key)

Capabilities == {"adaptive_mode", "dim", "light_temperature"}

\* a write of setMode, updateFromNightMode or updateFromPercentage, in a
\* handler that ran alone, rejected in the last step
WriteFailed ==
    /\ result = "write_failed"
    /\ Alone
    /\ done.at \in WritePcs \ InitWritePcs

\* the write that rejected: the last thing its handler did
Failed == done.log[Len(done.log)]

\* the handler, the store and the field after a rejected write: the handler
\* ended with the rejection, began no other write and triggered no flow,
\* the store is as it was, the field holds the value the write carried
FailureLeaves ==
    /\ done.outcome = "thrown"
    /\ NoneInFlight
    /\ writes = <<>>
    /\ flow = <<>>
    /\ cap = pre.cap
    /\ Len(done.log) > 0
    /\ Failed.kind = "write"
    /\ Held(Failed.key) = EventWrite(Failed)

\* C14 as stated: when the write a handler awaits in setMode,
\* updateFromNightMode or updateFromPercentage rejects, the handler ends
\* there with the rejection, the write is not made again, the field assigned
\* before the write keeps its value, and so the zone in memory and the
\* store, which agreed when the handler was called, differ.
C14_PersistFailureDiffers ==
    WriteFailed =>
        (/\ FailureLeaves
         /\ (\A key \in Capabilities :
                 HeldIn(done.entry, key) = StoredIn(done.entry, key))
                => \E key \in Capabilities : Held(key) # Stored(key))

\* C14, amended: ... and the field the rejected write mirrors differs from
\* the store if the handler changed that field and field and store agreed
\* when the handler was called (updateFromNightMode also writes the axis
\* that was already on target: that write rejecting leaves them equal).
C14_PersistFailure ==
    WriteFailed =>
        (/\ FailureLeaves
         /\ (/\ HeldIn(done.entry, Failed.key) = StoredIn(done.entry, Failed.key)
             /\ Held(Failed.key) # HeldIn(done.entry, Failed.key))
                => Held(Failed.key) # Stored(Failed.key))

C14_Witness ==
    /\ WriteFailed
    /\ done.o.name = "updateFromPercentage"
    /\ Len(done.log) = 2
    /\ done.log[2].key = "light_temperature"
    /\ cap.dim = currentBrightness
    /\ cap.light_temperature # currentTemperature

\* the override that returned ran alone and changed an axis
OverrideChanged ==
    /\ Returned
    /\ Alone
    /\ done.o.name = "override"
    /\ \/ done.o.newBrightness \notin {Unset, done.entry.currentBrightness}
       \/ done.o.newTemperature \notin {Unset, done.entry.currentTemperature}

\* C16: an override that changes an axis and ran alone ends in manual mode;
\* it writes the mode, "manual", only when the mode was not manual, and triggers one flow,
\* after that write, carrying the resulting brightness and temperature.
C16_OverrideOrder ==
    OverrideChanged =>
        LET b == IF done.o.newBrightness # Unset
                 THEN done.o.newBrightness ELSE done.entry.currentBrightness
            t == IF done.o.newTemperature # Unset
                 THEN done.o.newTemperature ELSE done.entry.currentTemperature
        IN  /\ mode = "manual"
            /\ currentBrightness = b
            /\ currentTemperature = t
            /\ done.log = IF done.entry.mode # "manual"
                          THEN <<WriteEvent(CapWrite("adaptive_mode", "manual", Unset)),
                                 FlowEvent(b, t)>>
                          ELSE <<FlowEvent(b, t)>>

C16_Witness ==
    /\ OverrideChanged
    /\ done.entry.mode = "night"
    /\ Len(done.log) = 2
    /\ cap.adaptive_mode = "manual"

\* C18: from the step in which setMode, updateFromNightMode or
\* updateFromPercentage, in a handler that is alone, begins a write, and
\* for as long as that write is in flight, the field it mirrors holds the
\* value being written.
C18_MemoryBeforePersist ==
    \A slot \in Slots :
        (tasks[slot].pc \in WritePcs \ InitWritePcs /\ tasks[slot].alone)
            => Held(tasks[slot].w.key) = tasks[slot].w

C18_Witness ==
    \E slot \in Slots :
        /\ tasks[slot].pc = "updateFromNightMode_171"
        /\ tasks[slot].alone
        /\ writes = <<tasks[slot].w>>
        /\ tasks[slot].w.value = currentTemperature
        /\ tasks[slot].o.name = "setMode"
        /\ cap.light_temperature # currentTemperature

\* the last step assigned currentBrightness or currentTemperature
StepAssigned ==
    \/ currentBrightness # pre.currentBrightness
    \/ currentTemperature # pre.currentTemperature

\* C19: a step of a percentage push assigns currentBrightness or
\* currentTemperature only while the mode is adaptive.
C19_PushWritesOnlyAdaptive ==
    (op.name = "updateFromPercentage" /\ StepAssigned) => pre.mode = "adaptive"

\* C20: a flow carries the two current values the zone holds when it is
\* triggered, and a handler triggers at most one.
C20_FlowCarriesCurrent ==
    /\ flow # <<>> => flow = <<Values(currentBrightness, currentTemperature)>>
    /\ Len(LogFlows) <= 1

====
